---- MODULE Spec2Model ----
(***************************************************************************)
(* A model of gos, a grep-like search tool.  Two revisions of the program  *)
(* are modelled side by side, selected by p.rev:                           *)
(*   "find"        the queue-driven search with the process-wide counters  *)
(*                 (src/unnamed/part_000, and src/search.go lines 1-392);  *)
(*   "GoOnSearch"  the channel-driven search with one discovery goroutine  *)
(*                 per BFS level (src/search.go lines 393-773).            *)
(* Text is a sequence of one-character strings, a path is a sequence of    *)
(* names, a name is text.                                                  *)
(* Spec is the search over a small file system; LineSpec is the scan of    *)
(* one line of text on its own.                                            *)
(***************************************************************************)
EXTENDS Integers, Sequences, FiniteSets, TLC

VARIABLES
    fs,             \* the file system: real path -> node
    p,              \* the parameters of the current invocation
    run,            \* ordinal of the current invocation in this process
    pc,             \* position of the caller / consumer
    result,         \* the boolean find / GoOnSearch returned ("none" before)
    queue,          \* find: the work queue
    matchCount, searchCount, discoverCount, skipCount, \* process-wide counters
    start,          \* the four counters as they were when the invocation began
    delivered,      \* entries the consumer has pulled so far, in order
    prev,           \* parameters and delivered entries of the previous invocation
    events,         \* listener calls so far: <<path, match, line, column>>
    outCount,       \* lines written to the output so far
    opened,         \* paths passed to a successful os.Open
    scanned,        \* entries on which a name match or a line scan was run
    statted,        \* paths passed to os.Stat
    sh,             \* GoOnSearch: the discoverFilesShallow goroutine
    rel,            \* GoOnSearch: the discoverFilesRecursive goroutine
    chans,          \* GoOnSearch: state of fileChan (c) and shallowChan (s)
    proc,           \* the process: its interrupt handler and its exit code
    files,          \* the file handles of the search: where Close is deferred to,
                    \* the paths open now, the most that were open at once
    probe           \* one line of text under one pattern, and what the scan gave

vars == <<fs, p, run, pc, result, queue, matchCount, searchCount, discoverCount,
          skipCount, start, delivered, prev, events, outCount, opened,
          scanned, statted, sh, rel, chans, proc, files, probe>>

\* Number of invocations made one after the other in one process.
MaxRuns == 2

\* Length of the longest line put under the probe.
MaxLen == 3

\* Deepest level of the tree find's loop is followed to; only a tree with a
\* symlink cycle has entries below it.
MaxDepth == 3

----------------------------------------------------------------------------
(* Text *)

NUL == "NUL"

IsSpace(c) == c \in {" ", "\t"}

Fold(c) == IF c = "A" THEN "a" ELSE IF c = "B" THEN "b" ELSE c

RECURSIVE countLeadingSpace(_)
countLeadingSpace(s) ==
    IF s # <<>> /\ IsSpace(Head(s)) THEN 1 + countLeadingSpace(Tail(s)) ELSE 0

RECURSIVE countTrailingSpace(_)
countTrailingSpace(s) ==
    IF s # <<>> /\ IsSpace(s[Len(s)])
    THEN 1 + countTrailingSpace(SubSeq(s, 1, Len(s) - 1)) ELSE 0

TrimSpace(s) ==
    LET l == countLeadingSpace(s) IN
    IF l = Len(s) THEN <<>>
    ELSE SubSeq(s, l + 1, Len(s) - countTrailingSpace(s))

----------------------------------------------------------------------------
(* Regular expressions: the patterns used are literals, optionally under  *)
(* the inline flag (?i); a pattern ending in a lone backslash does not     *)
(* compile.                                                                *)

IgnoreCasePrefix == <<"(", "?", "i", ")">>

RECURSIVE trailingBackslashes(_)
trailingBackslashes(s) ==
    IF s # <<>> /\ s[Len(s)] = "\\"
    THEN 1 + trailingBackslashes(SubSeq(s, 1, Len(s) - 1)) ELSE 0

Compile(src) ==
    LET ic   == Len(src) >= 4 /\ SubSeq(src, 1, 4) = IgnoreCasePrefix
        body == IF ic THEN SubSeq(src, 5, Len(src)) ELSE src
    IN  [ok |-> trailingBackslashes(body) % 2 = 0, ic |-> ic, lit |-> body]

\* Does re match s at the 0-based offset i?
MatchAt(re, s, i) ==
    /\ i + Len(re.lit) <= Len(s)
    /\ \A k \in 1..Len(re.lit) :
          IF re.ic THEN Fold(s[i + k]) = Fold(re.lit[k]) ELSE s[i + k] = re.lit[k]

\* The leftmost match starting at or after pos: its start offset, or -1.
Leftmost(re, s, pos) ==
    LET starts == {i \in pos..Len(s) : MatchAt(re, s, i)} IN
    IF starts = {} THEN -1 ELSE CHOOSE i \in starts : \A j \in starts : i <= j

\* regexp.FindAllStringIndex(s, -1): successive leftmost matches; an empty
\* match directly after the previous match is dropped.
RECURSIVE allMatches(_, _, _, _)
allMatches(re, s, pos, prevMatchEnd) ==
    IF pos > Len(s) THEN <<>>
    ELSE LET st == Leftmost(re, s, pos) IN
         IF st = -1 THEN <<>>
         ELSE LET en     == st + Len(re.lit)
                  accept == ~(en = pos /\ st = prevMatchEnd)
                  next   == IF en = pos THEN pos + 1 ELSE en
                  rest   == allMatches(re, s, next, en)
              IN  IF accept THEN <<(<<st, en>>)>> \o rest ELSE rest

FindAllStringIndex(re, s) == allMatches(re, s, 0, -1)

MatchString(re, s) == Leftmost(re, s, 0) # -1

\* Faulty variant of splitStringAtAllMatches: the rest of s is taken from the
\* start of the match, not from its end.
splitStringKeepingMatch(s, re) ==
    LET matches == FindAllStringIndex(re, s) IN
    [i \in 1..Len(matches) |->
        [left   |-> SubSeq(s, 1, matches[i][1]),
         middle |-> SubSeq(s, matches[i][1] + 1, matches[i][2]),
         right  |-> SubSeq(s, matches[i][1] + 1, Len(s))]]

\* One triple per match: the text before it, the match, the text after it.
\* No match gives the empty sequence (nil).
splitStringAtAllMatches(s, re) ==
    LET matches == FindAllStringIndex(re, s) IN
    [i \in 1..Len(matches) |->
        [left   |-> SubSeq(s, 1, matches[i][1]),
         middle |-> SubSeq(s, matches[i][1] + 1, matches[i][2]),
         right  |-> SubSeq(s, matches[i][2] + 1, Len(s))]]

----------------------------------------------------------------------------
(* The file system.  A node is a directory, a regular file or a symbolic   *)
(* link; ok = FALSE makes ioutil.ReadDir (directory) or os.Open (file)     *)
(* fail.  A link's target is a real path.                                  *)

nA == <<"a">>
nB == <<"b">>
nD == <<"d">>
nE == <<"e">>
nM == <<"m">>

\* ioutil.ReadDir returns the children sorted by name.
NameOrder == <<nA, nB, nD, nE, nM>>

Dir        == [kind |-> "dir",  ok |-> TRUE,  target |-> <<>>, content |-> <<>>]
BadDir     == [kind |-> "dir",  ok |-> FALSE, target |-> <<>>, content |-> <<>>]
File(c)    == [kind |-> "file", ok |-> TRUE,  target |-> <<>>, content |-> c]
BadFile(c) == [kind |-> "file", ok |-> FALSE, target |-> <<>>, content |-> c]
Link(t)    == [kind |-> "link", ok |-> TRUE,  target |-> t,    content |-> <<>>]

TwoMatches == << <<"a", "a">> >>
ThreeLines == << <<"a">>, <<>>, <<" ", "b", "a">> >>
OneLine    == << <<"b", "a">> >>
NoLines    == << >>
\* A line with a NUL between two lines without one; the last line is in
\* upper case.
Binary     == << <<"a">>, <<" ", NUL, "a">>, <<"A">> >>

CommonTree ==
    (<<nD>> :> Dir) @@ (<<nD, nA>> :> Dir) @@
    (<<nD, nA, nA>> :> File(TwoMatches)) @@ (<<nD, nA, nB>> :> File(ThreeLines)) @@
    (<<nE>> :> File(OneLine))

TreeBase     == CommonTree @@ (<<nD, nB>> :> Dir) @@ (<<nD, nB, nA>> :> File(NoLines))
TreeUnread   == (<<nD, nA>> :> BadDir) @@ TreeBase
TreeNoOpen   == (<<nD, nA, nA>> :> BadFile(TwoMatches)) @@ TreeBase
TreeLinkDir  == CommonTree @@ (<<nD, nB>> :> Link(<<nD, nA>>))
TreeLinkFile == CommonTree @@ (<<nD, nB>> :> Link(<<nD, nA, nA>>))
TreeDangling == CommonTree @@ (<<nD, nB>> :> Link(<<nD, nM>>))
TreeBinary   == (<<nD, nA, nA>> :> File(Binary)) @@ TreeBase
\* d/b is a symlink to its own parent directory d.
TreeCycle    == CommonTree @@ (<<nD, nB>> :> Link(<<nD>>))

Trees ==
    {TreeBase, TreeUnread, TreeNoOpen, TreeLinkDir, TreeLinkFile, TreeDangling,
     TreeBinary, TreeCycle}

NoNode == <<>>

\* Path resolution from the real directory cur along the names of rest; the
\* last name is followed through a link only when followLast.
RECURSIVE Walk(_, _, _)
Walk(cur, rest, followLast) ==
    IF rest = <<>> THEN cur
    ELSE LET nxt == Append(cur, Head(rest)) IN
         IF nxt \notin DOMAIN fs THEN NoNode
         ELSE IF fs[nxt].kind = "link" /\ (Len(rest) > 1 \/ followLast)
              THEN LET t == fs[nxt].target IN
                   IF t \in DOMAIN fs /\ (Len(rest) = 1 \/ fs[t].kind = "dir")
                   THEN Walk(t, Tail(rest), followLast) ELSE NoNode
         ELSE IF Len(rest) > 1 /\ fs[nxt].kind # "dir" THEN NoNode
         ELSE Walk(nxt, Tail(rest), followLast)

Base(path) == path[Len(path)]

\* os.Stat: follows symlinks; Name() is the base name of the path asked for.
Stat(path) ==
    LET n == Walk(<<>>, path, TRUE) IN
    IF n = NoNode THEN [err |-> TRUE, name |-> Base(path), isDir |-> FALSE, isSymlink |-> FALSE]
    ELSE [err |-> FALSE, name |-> Base(path), isDir |-> fs[n].kind = "dir", isSymlink |-> FALSE]

\* ioutil.ReadDir: the children of the directory, by name, not followed.
ReadDir(path) ==
    LET n == Walk(<<>>, path, TRUE) IN
    IF n = NoNode \/ fs[n].kind # "dir" \/ ~fs[n].ok THEN [err |-> TRUE, children |-> <<>>]
    ELSE LET names == SelectSeq(NameOrder, LAMBDA c : Append(n, c) \in DOMAIN fs) IN
         [err |-> FALSE,
          children |-> [i \in 1..Len(names) |->
              [name      |-> names[i],
               isDir     |-> fs[Append(n, names[i])].kind = "dir",
               isSymlink |-> fs[Append(n, names[i])].kind = "link"]]]

\* os.Open: follows symlinks.
Open(path) ==
    LET n == Walk(<<>>, path, TRUE) IN
    IF n = NoNode \/ ~fs[n].ok THEN [err |-> TRUE, lines |-> <<>>]
    ELSE [err |-> FALSE, lines |-> fs[n].content]

\* FileInfoWithPath, with the number of directory levels between the entry
\* and the root it was reached from (depth; bookkeeping, not in the code).
Entry(info, path, depth) ==
    [path |-> path, name |-> info.name, isDir |-> info.isDir,
     isSymlink |-> info.isSymlink, depth |-> depth]

isSymlink(f) == f.isSymlink

isDirOrSymlinkPointingToDir(f) == f.isDir \/ isSymlink(f)

\* The entries one path contributes to getFileInfoWithPaths: nothing when
\* Stat or ReadDir fails (continue), the children of a directory, the path
\* itself otherwise.
entriesOfPath(path, depth) ==
    LET finfo == Stat(path) IN
    IF finfo.err THEN <<>>
    ELSE IF finfo.isDir \/ isSymlink(finfo)
         THEN LET rd == ReadDir(path) IN
              IF rd.err THEN <<>>
              ELSE [i \in 1..Len(rd.children) |->
                      Entry(rd.children[i], Append(path, rd.children[i].name), depth)]
         ELSE <<Entry(finfo, path, depth)>>

RECURSIVE getFileInfoWithPaths(_, _)
getFileInfoWithPaths(paths, depth) ==
    IF paths = <<>> THEN <<>>
    ELSE entriesOfPath(Head(paths), depth) \o getFileInfoWithPaths(Tail(paths), depth)

----------------------------------------------------------------------------
(* Parameters of an invocation (FindParameters / GosParameters).           *)

Revs == {"find", "GoOnSearch"}

RootPaths == {<<nD>>, <<nE>>, <<nM>>, <<nD, nB>>, <<nD, nA, nA>>}

PathChoices ==
    {<<r>> : r \in RootPaths} \cup
    {pr \in RootPaths \X RootPaths : pr[1] # pr[2]}

RegexStrings  == {<<"a">>, <<>>, <<"\\">>}
FilterStrings == {<<>>, <<"a">>, <<"\\">>}

Params(rev, paths, regexString, recursive, filterString, fnamesOnly, quiet, verbose, listener) ==
    [rev |-> rev, paths |-> paths, regexString |-> regexString,
     recursive |-> recursive, filterString |-> filterString,
     fnamesOnly |-> fnamesOnly, ignoreCase |-> FALSE, quiet |-> quiet,
     verbose |-> verbose, noSkip |-> FALSE, listener |-> listener]

\* Every combination of the options validation looks at, over one root.
FlagParams ==
    {Params(rev, <<(<<nD>>)>>, re, FALSE, fi, fn, q, v, l) :
        rev \in Revs, re \in RegexStrings, fi \in FilterStrings,
        fn \in BOOLEAN, q \in BOOLEAN, v \in BOOLEAN, l \in BOOLEAN}

\* Every choice of roots and traversal, over the option sets that pass
\* validation.
WalkParams ==
    {Params(rev, paths, re, rec, m[1], m[2], FALSE, FALSE, TRUE) :
        rev \in Revs, paths \in PathChoices, re \in {<<"a">>, <<>>},
        rec \in BOOLEAN,
        m \in {<<(<<>>), FALSE>>, <<(<<"a">>), FALSE>>, <<(<<>>), TRUE>>}}

\* The ignore-case and no-skip options, over patterns and filters in lower
\* and in upper case.
OptionParams ==
    {[Params(rev, paths, re, TRUE, fi, FALSE, FALSE, FALSE, TRUE)
         EXCEPT !.ignoreCase = ic, !.noSkip = ns] :
        rev \in Revs, paths \in {<<(<<nD>>)>>, <<(<<nD, nA, nA>>)>>},
        re \in {<<"a">>, <<"A">>}, fi \in {<<>>, <<"A">>},
        ic \in BOOLEAN, ns \in BOOLEAN}

AllParams == FlagParams \cup WalkParams \cup OptionParams

maybeIgnoreCase(q) == IF q.ignoreCase THEN IgnoreCasePrefix ELSE <<>>

regexOf(q)  == Compile(maybeIgnoreCase(q) \o q.regexString)

\* Faulty variant of filterOf: the filter is compiled without the flag.
filterOfCaseSensitive(q) == Compile(q.filterString)

filterOf(q) == Compile(maybeIgnoreCase(q) \o q.filterString)

\* Faulty variant of validate: the filter / filenames-only conflict is not
\* checked.
validateWithoutFilterCheck(q) ==
    IF q.quiet /\ q.verbose
    THEN "The quiet and verbose modes are mutually exclusive."
    ELSE IF ~regexOf(q).ok THEN "Bad mandatory regex"
    ELSE IF ~filterOf(q).ok THEN "Bad filter regex"
    ELSE ""

\* The checks made before discovery starts: the message returned with
\* false, or "" when the search goes ahead.
validate(q) ==
    IF q.quiet /\ q.verbose
    THEN "The quiet and verbose modes are mutually exclusive."
    ELSE IF q.filterString # <<>> /\ q.fnamesOnly
    THEN "Using the filter while searching for filenames is redundant."
    ELSE IF ~regexOf(q).ok THEN "Bad mandatory regex"
    ELSE IF ~filterOf(q).ok THEN "Bad filter regex"
    ELSE ""

----------------------------------------------------------------------------
(* Matching one entry.  The result of a search function is the record of   *)
(* what it did: listener calls, output lines, counter increments, whether  *)
(* the file was opened, whether a match was run.                           *)

Nothing ==
    [events |-> <<>>, out |-> 0, searched |-> 0, matched |-> 0, skipped |-> 0,
     opened |-> FALSE, scanned |-> FALSE]

\* Faulty variant of countMatches: a line (or name) with matches counts once.
countMatchedLines(triples) == IF Len(triples) > 0 THEN 1 ELSE 0

\* matchCount++ once per triple.
countMatches(triples) == Len(triples)

\* The listener calls of one matched text: none without a listener.
listenerCalls(q, calls) == IF q.listener THEN calls ELSE <<>>

\* Faulty variant of filteredOut: an entry that is one of the roots is exempt
\* from the filter.
filteredOutBelowRoots(q, f) ==
    /\ \A i \in 1..Len(q.paths) : q.paths[i] # f.path
    /\ q.filterString # <<>> /\ ~MatchString(filterOf(q), f.name)

filteredOut(q, f) ==
    q.filterString # <<>> /\ ~MatchString(filterOf(q), f.name)

\* The path as one text, its names joined by the separator.
RECURSIVE JoinPath(_)
JoinPath(path) ==
    IF Len(path) = 1 THEN path[1] ELSE path[1] \o <<"/">> \o JoinPath(Tail(path))

\* Faulty variant of searchFilename: the pattern is matched on the path.
searchFilenameOnPath(q, f, re) ==
    LET triples == splitStringAtAllMatches(JoinPath(f.path), re) IN
    [Nothing EXCEPT
        !.searched = 1,
        !.scanned  = TRUE,
        !.matched  = countMatches(triples),
        !.out      = Len(triples),
        !.events   = listenerCalls(q,
                        [i \in 1..Len(triples) |-> <<f.path, triples[i].middle, -1, -1>>])]

searchFilename(q, f, re) ==
    LET triples == splitStringAtAllMatches(f.name, re) IN
    [Nothing EXCEPT
        !.searched = 1,
        !.scanned  = TRUE,
        !.matched  = countMatches(triples),
        !.out      = Len(triples),
        !.events   = listenerCalls(q,
                        [i \in 1..Len(triples) |-> <<f.path, triples[i].middle, -1, -1>>])]

\* Faulty variant of nextLineNumber: the line number is advanced in the loop
\* over the matches.
nextLineNumberPerMatch(lineNumber, triples) == lineNumber + Len(triples)

\* lineNumber += 1, at the end of the body of the line loop.
nextLineNumber(lineNumber, triples) == lineNumber + 1

\* Faulty variant of binaryLine: the no-skip option is not looked at.
binaryLineWhateverNoSkip(q, line) == \E i \in 1..Len(line) : line[i] = NUL

\* The test that ends the scan of a file: skipping is on and the trimmed
\* line holds a NUL.
binaryLine(q, line) == ~q.noSkip /\ \E i \in 1..Len(line) : line[i] = NUL

\* The line loop of searchFileContents from the line numbered lineNumber.
RECURSIVE scanLines(_, _, _, _, _)
scanLines(q, f, re, lines, lineNumber) ==
    IF lines = <<>> THEN Nothing
    ELSE LET line         == TrimSpace(Head(lines))
             leadingSpace == countLeadingSpace(Head(lines))
         IN  IF binaryLine(q, line)
             THEN [Nothing EXCEPT !.skipped = 1]
             ELSE LET triples == splitStringAtAllMatches(line, re)
                      calls   == [i \in 1..Len(triples) |->
                                    <<f.path, triples[i].middle, lineNumber,
                                      Len(triples[i].left) + leadingSpace>>]
                      rest    == scanLines(q, f, re, Tail(lines),
                                           nextLineNumber(lineNumber, triples))
                  IN  [rest EXCEPT
                          !.searched = 1 + rest.searched,
                          !.matched  = countMatches(triples) + rest.matched,
                          !.out      = Len(triples) + rest.out,
                          !.events   = listenerCalls(q, calls) \o rest.events]

\* Faulty variant of searchFileContents: the entry is counted as searched
\* before the file is opened.
searchFileContentsCountingFirst(q, f, re) ==
    IF f.isDir \/ isSymlink(f) THEN [Nothing EXCEPT !.skipped = 1]
    ELSE LET openedFile == Open(f.path) IN
         IF openedFile.err THEN [Nothing EXCEPT !.searched = 1]
         ELSE [scanLines(q, f, re, openedFile.lines, 1) EXCEPT
                  !.opened = TRUE, !.scanned = TRUE]

searchFileContents(q, f, re) ==
    IF f.isDir \/ isSymlink(f) THEN [Nothing EXCEPT !.skipped = 1]
    ELSE LET openedFile == Open(f.path) IN
         IF openedFile.err THEN Nothing
         ELSE [scanLines(q, f, re, openedFile.lines, 1) EXCEPT
                  !.opened = TRUE, !.scanned = TRUE]

\* Faulty variant of searchEntry: an entry the filter rejects is counted as
\* skipped and searched all the same (no continue).
searchEntryFallingThrough(q, f) ==
    LET r == IF q.fnamesOnly THEN searchFilename(q, f, regexOf(q))
             ELSE searchFileContents(q, f, regexOf(q))
    IN  IF filteredOut(q, f) THEN [r EXCEPT !.skipped = r.skipped + 1] ELSE r

\* The body of the consumer's loop after the entry was taken: the filter,
\* then the match by name or by content.
searchEntry(q, f) ==
    IF filteredOut(q, f) THEN [Nothing EXCEPT !.skipped = 1]
    ELSE IF q.fnamesOnly THEN searchFilename(q, f, regexOf(q))
    ELSE searchFileContents(q, f, regexOf(q))

----------------------------------------------------------------------------
(* State shared by both revisions.                                         *)

Counters ==
    [matched |-> matchCount, searched |-> searchCount,
     discovered |-> discoverCount, skipped |-> skipCount]

ShOff  == [pc |-> "off", paths |-> <<>>, pending |-> <<>>, out |-> "c", depth |-> 0]
RelOff == [pc |-> "off", paths |-> <<>>, cur |-> <<>>, level |-> 0]
ChansOff == [c |-> "none", s |-> "none"]

SeqToSet(s) == {s[i] : i \in 1..Len(s)}

\* No line is under the probe while a search runs.
ProbeOff == [pc |-> "off"]

\* The process of the test binary: find / GoOnSearch is called directly, any
\* number of times, and no interrupt handler is installed.  exit is the
\* exit code, -1 while the process runs.
ProcTest == [handler |-> "none", exit |-> -1]

\* The process of the command: main has installed the interrupt handler
\* and calls the search once.
ProcMain == [handler |-> "waiting", exit |-> -1]

\* os.Exit has not been called.
Alive == proc.exit = -1

\* Where the deferred Close of an opened file runs: at the return of find,
\* when defer stands in the body of find's loop, or at the return of
\* searchFileContents, once per entry.  No file is open before the search.
FilesOff(atReturn) == [atReturn |-> atReturn, open |-> <<>>, most |-> 0]

Init ==
    /\ fs \in Trees
    /\ p \in AllParams
    /\ run = 1
    /\ pc = "idle"
    /\ result = "none"
    /\ queue = <<>>
    /\ matchCount = 0 /\ searchCount = 0 /\ discoverCount = 0 /\ skipCount = 0
    /\ start = [matched |-> 0, searched |-> 0, discovered |-> 0, skipped |-> 0]
    /\ delivered = <<>>
    /\ prev = [p |-> p, delivered |-> <<>>]
    /\ events = <<>>
    /\ outCount = 0
    /\ opened = <<>>
    /\ scanned = <<>>
    /\ statted = {}
    /\ sh = ShOff
    /\ rel = RelOff
    /\ chans = ChansOff
    /\ proc \in {ProcTest, ProcMain}
    /\ files \in {FilesOff(b) : b \in IF p.rev = "find" THEN BOOLEAN ELSE {FALSE}}
    /\ probe = ProbeOff

\* Faulty variant of stillOpen: the file is closed when the search of its
\* entry is over, wherever the defer statement stands.
stillOpenNever(atReturn, open, path) == open

\* The files open once the search of the entry at path, which opened it, is
\* over: Close is deferred to the return of the function the defer
\* statement stands in, find itself (atReturn) or searchFileContents.
stillOpen(atReturn, open, path) == IF atReturn THEN Append(open, path) ELSE open

\* The handles after the search of the entry f.
filesAfter(f, eff) ==
    IF eff.opened
    THEN [files EXCEPT
            !.open = stillOpen(files.atReturn, files.open, f.path),
            !.most = IF Len(files.open) + 1 > files.most
                     THEN Len(files.open) + 1 ELSE files.most]
    ELSE files

\* What the search of the entry f did, as the consumer's log records it.
Searched(f, eff) ==
    /\ files' = filesAfter(f, eff)
    /\ events' = events \o eff.events
    /\ outCount' = outCount + eff.out
    /\ opened' = IF eff.opened THEN Append(opened, f.path) ELSE opened
    /\ scanned' = IF eff.scanned THEN Append(scanned, f.path) ELSE scanned

\* What the consumer records of one entry f it pulled and of what the search
\* of f did.
Consume(f, eff) ==
    /\ delivered' = Append(delivered, f)
    /\ Searched(f, eff)

----------------------------------------------------------------------------
(* Revision "find": one queue, one thread, process-wide counters.          *)

\* Faulty variant of toExpand: only an entry that passes the filter is
\* expanded.
toExpandIfKept(q, f) ==
    isDirOrSymlinkPointingToDir(f) /\ q.recursive /\ ~filteredOut(q, f)

\* Is the entry expanded into its children?
toExpand(q, f) == isDirOrSymlinkPointingToDir(f) /\ q.recursive

\* Faulty variant of appendChildren: the children are prepended (depth-first).
prependChildren(q, children) == children \o q

\* Appending the children makes the search breadth-first.
appendChildren(q, children) == q \o children

\* find up to its loop: validation, then the discovery of the roots.
FindCall ==
    /\ Alive
    /\ pc = "idle" /\ p.rev = "find"
    /\ IF validate(p) # ""
       THEN /\ pc' = "failed" /\ result' = FALSE
            /\ UNCHANGED <<queue, statted>>
       ELSE /\ pc' = "loop"
            /\ queue' = getFileInfoWithPaths(p.paths, 1)
            /\ statted' = statted \cup SeqToSet(p.paths)
            /\ UNCHANGED result
    /\ UNCHANGED <<probe, proc, files, fs, p, run, matchCount, searchCount, discoverCount, skipCount,
                   start, delivered, prev, events, outCount, opened, scanned,
                   sh, rel, chans>>

\* One iteration of find's loop.
FindLoop ==
    /\ Alive
    /\ pc = "loop" /\ p.rev = "find" /\ queue # <<>>
    /\ Head(queue).depth <= MaxDepth
    /\ LET f        == Head(queue)
           children == IF toExpand(p, f)
                       THEN getFileInfoWithPaths(<<f.path>>, f.depth + 1) ELSE <<>>
           eff      == searchEntry(p, f)
       IN  /\ queue' = appendChildren(Tail(queue), children)
           /\ statted' = IF toExpand(p, f) THEN statted \cup {f.path} ELSE statted
           /\ discoverCount' = discoverCount + 1
           /\ skipCount' = skipCount + eff.skipped
           /\ searchCount' = searchCount + eff.searched
           /\ matchCount' = matchCount + eff.matched
           /\ Consume(f, eff)
    /\ UNCHANGED <<probe, proc, fs, p, run, pc, result, start, prev, sh, rel, chans>>

\* The queue is empty: find returns true.
FindReturn ==
    /\ Alive
    /\ pc = "loop" /\ p.rev = "find" /\ queue = <<>>
    /\ pc' = "done" /\ result' = TRUE
    /\ files' = [files EXCEPT !.open = <<>>]
    /\ UNCHANGED <<probe, proc, fs, p, run, queue, matchCount, searchCount, discoverCount,
                   skipCount, start, delivered, prev, events, outCount,
                   opened, scanned, statted, sh, rel, chans>>

----------------------------------------------------------------------------
(* Revision "GoOnSearch": the consumer ranges over the unbuffered channel  *)
(* c; discoverFilesShallow sends on c, or, in recursive mode, on a fresh   *)
(* shallowChan per level that discoverFilesRecursive relays to c.  A       *)
(* goroutine at a send (pc = "send") waits until the receiver takes the    *)
(* entry.                                                                  *)

\* GoOnSearch up to its loop: validation, make(chan), go discover...
GoOnCall ==
    /\ Alive
    /\ pc = "idle" /\ p.rev = "GoOnSearch"
    /\ IF validate(p) # ""
       THEN /\ pc' = "failed" /\ result' = FALSE
            /\ UNCHANGED <<sh, rel, chans>>
       ELSE /\ pc' = "loop"
            /\ chans' = [c |-> "open", s |-> "none"]
            /\ IF p.recursive
               THEN /\ rel' = [pc |-> "top", paths |-> p.paths, cur |-> <<>>, level |-> 1]
                    /\ sh' = ShOff
               ELSE /\ sh' = [pc |-> "next", paths |-> p.paths, pending |-> <<>>,
                              out |-> "c", depth |-> 1]
                    /\ rel' = RelOff
            /\ UNCHANGED result
    /\ UNCHANGED <<probe, proc, files, fs, p, run, queue, matchCount, searchCount, discoverCount,
                   skipCount, start, delivered, prev, events, outCount, opened,
                   scanned, statted>>

\* What discoverFilesShallow does with one path: the entries to send, or
\* abort when Stat or ReadDir fails (return, without close).
shallowOfPath(path, depth) ==
    LET f == Stat(path) IN
    IF f.err THEN [abort |-> TRUE, entries |-> <<>>]
    ELSE IF f.isDir
         THEN LET rd == ReadDir(path) IN
              IF rd.err THEN [abort |-> TRUE, entries |-> <<>>]
              ELSE [abort |-> FALSE,
                    entries |-> [i \in 1..Len(rd.children) |->
                        Entry(rd.children[i], Append(path, rd.children[i].name), depth)]]
         ELSE [abort |-> FALSE, entries |-> <<Entry(f, path, depth)>>]

\* discoverFilesShallow takes the next path of its range.
ShallowPath ==
    /\ Alive
    /\ sh.pc = "next" /\ sh.paths # <<>>
    /\ LET r == shallowOfPath(Head(sh.paths), sh.depth) IN
       sh' = [sh EXCEPT !.paths = Tail(sh.paths),
                        !.pending = r.entries,
                        !.pc = IF r.abort THEN "returned"
                               ELSE IF r.entries = <<>> THEN "next" ELSE "send"]
    /\ statted' = statted \cup {Head(sh.paths)}
    /\ UNCHANGED <<probe, proc, files, fs, p, run, pc, result, queue, matchCount, searchCount,
                   discoverCount, skipCount, start, delivered, prev,
                   events, outCount, opened, scanned, rel, chans>>

\* discoverFilesShallow ran out of paths: close(fileChan).
ShallowClose ==
    /\ Alive
    /\ sh.pc = "next" /\ sh.paths = <<>>
    /\ sh' = [sh EXCEPT !.pc = "closed"]
    /\ chans' = [chans EXCEPT ![sh.out] = "closed"]
    /\ UNCHANGED <<probe, proc, files, fs, p, run, pc, result, queue, matchCount, searchCount,
                   discoverCount, skipCount, start, delivered, prev,
                   events, outCount, opened, scanned, statted, rel>>

\* The sender's state after its entry was received.
shAfterSend ==
    [sh EXCEPT !.pending = Tail(sh.pending),
               !.pc = IF Len(sh.pending) = 1 THEN "next" ELSE "send"]

\* Faulty variant of levelChan: the goroutine of a level is given fileChan.
levelChanShared == "c"

\* The channel the goroutine of a level sends on: the shallowChan made for
\* the level.
levelChan == "s"

\* discoverFilesRecursive at the top of its loop: a new level, or close.
RelayTop ==
    /\ Alive
    /\ rel.pc = "top"
    /\ IF rel.paths = <<>>
       THEN /\ rel' = [rel EXCEPT !.pc = "done"]
            /\ chans' = [chans EXCEPT !.c = "closed"]
            /\ UNCHANGED sh
       ELSE /\ chans' = [chans EXCEPT !.s = "open"]
            /\ sh' = [pc |-> "next", paths |-> rel.paths, pending |-> <<>>,
                      out |-> levelChan, depth |-> rel.level]
            /\ rel' = [rel EXCEPT !.pc = "recv", !.paths = <<>>, !.level = rel.level + 1]
    /\ UNCHANGED <<probe, proc, files, fs, p, run, pc, result, queue, matchCount, searchCount,
                   discoverCount, skipCount, start, delivered, prev,
                   events, outCount, opened, scanned, statted>>

\* Faulty variant of relayAtRange: the relay takes further entries from
\* shallowChan while the one it holds has not been received from fileChan.
relayAtRangeOrSend(r) == r.pc \in {"recv", "send"}

\* discoverFilesRecursive is at the range over shallowChan: the send of the
\* previous entry on fileChan has completed.
relayAtRange(r) == r.pc = "recv"

\* discoverFilesRecursive receives an entry from shallowChan.
RelayRecv ==
    /\ Alive
    /\ relayAtRange(rel) /\ sh.pc = "send" /\ sh.out = "s"
    /\ rel' = [rel EXCEPT !.pc = "send", !.cur = Append(rel.cur, Head(sh.pending))]
    /\ sh' = shAfterSend
    /\ UNCHANGED <<probe, proc, files, fs, p, run, pc, result, queue, matchCount, searchCount,
                   discoverCount, skipCount, start, delivered, prev,
                   events, outCount, opened, scanned, statted, chans>>

\* Faulty variant of levelOver: the range also ends when the sender has no
\* entry waiting.
levelOverWhenIdle(ch, sender) == ch = "closed" \/ sender.pc = "next"

\* The range over shallowChan ends when its sender has closed it.
levelOver(ch, sender) == ch = "closed"

\* shallowChan was closed: the range over it ends.
RelayLevelEnd ==
    /\ Alive
    /\ rel.pc = "recv" /\ levelOver(chans.s, sh)
    /\ rel' = [rel EXCEPT !.pc = "top"]
    /\ UNCHANGED <<probe, proc, files, fs, p, run, pc, result, queue, matchCount, searchCount,
                   discoverCount, skipCount, start, delivered, prev,
                   events, outCount, opened, scanned, statted, sh, chans>>

\* The frontier after the relayed entry f was received from c.
nextFrontier(paths, f) == IF f.isDir THEN Append(paths, f.path) ELSE paths

\* Faulty variant of atRange: the next entry is taken while the previous one
\* is still being searched.
atRangeOrInBody(at) == at \in {"loop", "search"}

\* The consumer is at the range over c: the body of the previous iteration
\* has returned.
atRange(at) == at = "loop"

\* The consumer receives an entry from c; the sender goes on.
GoOnLoop ==
    /\ Alive
    /\ atRange(pc) /\ p.rev = "GoOnSearch" /\ chans.c = "open"
    /\ \/ /\ rel.pc = "send"
          /\ delivered' = Append(delivered, rel.cur[1])
          /\ rel' = [rel EXCEPT !.pc = IF Len(rel.cur) = 1 THEN "recv" ELSE "send",
                                !.cur = Tail(rel.cur),
                                !.paths = nextFrontier(rel.paths, rel.cur[1])]
          /\ UNCHANGED sh
       \/ /\ sh.pc = "send" /\ sh.out = "c"
          /\ delivered' = Append(delivered, Head(sh.pending))
          /\ sh' = shAfterSend
          /\ UNCHANGED rel
    /\ pc' = "search"
    /\ UNCHANGED <<probe, proc, files, fs, p, run, result, queue, matchCount, searchCount,
                   discoverCount, skipCount, start, prev, statted, chans,
                   events, outCount, opened, scanned>>

\* The body of the loop: the entry just received is filtered and searched,
\* while the discovery goroutines run on.
GoOnBody ==
    /\ Alive
    /\ pc = "search" /\ p.rev = "GoOnSearch"
    /\ LET f == delivered[Len(delivered)] IN Searched(f, searchEntry(p, f))
    /\ pc' = "loop"
    /\ UNCHANGED <<probe, proc, fs, p, run, result, queue, matchCount, searchCount,
                   discoverCount, skipCount, start, delivered, prev, statted,
                   sh, rel, chans>>

\* c was closed: the range ends and GoOnSearch returns true.
GoOnReturn ==
    /\ Alive
    /\ pc = "loop" /\ p.rev = "GoOnSearch" /\ chans.c = "closed"
    /\ pc' = "done" /\ result' = TRUE
    /\ UNCHANGED <<probe, proc, files, fs, p, run, queue, matchCount, searchCount, discoverCount,
                   skipCount, start, delivered, prev, events, outCount,
                   opened, scanned, statted, sh, rel, chans>>

----------------------------------------------------------------------------
(* The command: main installs a goroutine that waits for the interrupt     *)
(* signal, calls the search once and exits.  The handler runs beside the   *)
(* search: in "find" it is done(true), which reads the four counters,      *)
(* prints them and exits; in "GoOnSearch" it writes a line to gos.Out and  *)
(* exits.  What the handler prints is not recorded.                        *)

\* The code the interrupt handler passes to os.Exit.
interruptCode(rev) == IF rev = "GoOnSearch" THEN 0 ELSE 1

\* The code main exits with once the search has returned.
returnCode(at) == IF at = "failed" THEN 1 ELSE 0

\* The signal arrives: the handler goroutine starts to read the counters
\* ("find") or to write to the output ("GoOnSearch").
Interrupt ==
    /\ Alive /\ proc.handler = "waiting"
    /\ proc' = [proc EXCEPT !.handler = "reporting"]
    /\ UNCHANGED <<probe, files, fs, p, run, pc, result, queue, matchCount, searchCount,
                   discoverCount, skipCount, start, delivered, prev, events,
                   outCount, opened, scanned, statted, sh, rel, chans>>

\* The handler has printed and calls os.Exit.
HandlerExit ==
    /\ Alive /\ proc.handler = "reporting"
    /\ proc' = [handler |-> "exited", exit |-> interruptCode(p.rev)]
    /\ UNCHANGED <<probe, files, fs, p, run, pc, result, queue, matchCount, searchCount,
                   discoverCount, skipCount, start, delivered, prev, events,
                   outCount, opened, scanned, statted, sh, rel, chans>>

\* The search has returned to main, which exits.
MainExit ==
    /\ Alive /\ proc.handler # "none" /\ pc \in {"done", "failed"}
    /\ proc' = [proc EXCEPT !.exit = returnCode(pc)]
    /\ UNCHANGED <<probe, files, fs, p, run, pc, result, queue, matchCount, searchCount,
                   discoverCount, skipCount, start, delivered, prev, events,
                   outCount, opened, scanned, statted, sh, rel, chans>>

----------------------------------------------------------------------------
(* A further invocation in the same process, as the tests make them: the   *)
(* same parameters, the mandatory pattern or the filter changed.           *)

NextParams(q) ==
    {[q EXCEPT !.regexString = re] : re \in RegexStrings \ {q.regexString}} \cup
    {[q EXCEPT !.filterString = fi] : fi \in {<<>>, <<"a">>} \ {q.filterString}}

Again ==
    /\ Alive /\ proc.handler = "none"
    /\ pc = "done" /\ run < MaxRuns
    /\ p' \in NextParams(p)
    /\ run' = run + 1
    /\ pc' = "idle"
    /\ result' = "none"
    /\ queue' = <<>>
    /\ prev' = [p |-> p, delivered |-> delivered]
    /\ start' = Counters
    /\ delivered' = <<>>
    /\ events' = <<>>
    /\ outCount' = 0
    /\ opened' = <<>>
    /\ scanned' = <<>>
    /\ statted' = {}
    /\ sh' = ShOff /\ rel' = RelOff /\ chans' = ChansOff
    /\ files' = [files EXCEPT !.most = 0]
    /\ UNCHANGED <<probe, proc, fs, matchCount, searchCount, discoverCount, skipCount>>

Next ==
    \/ FindCall \/ FindLoop \/ FindReturn
    \/ GoOnCall \/ ShallowPath \/ ShallowClose
    \/ RelayTop \/ RelayRecv \/ RelayLevelEnd
    \/ GoOnLoop \/ GoOnBody \/ GoOnReturn
    \/ Interrupt \/ HandlerExit \/ MainExit
    \/ Again

Spec == Init /\ [][Next]_vars

----------------------------------------------------------------------------
(* The scan of one line, on its own: a line of text is split at the        *)
(* matches of a pattern and scanned as the only line of a file; whitespace *)
(* is then added at either end and the line is scanned again.              *)

ProbeChars == {"a", "b", " "}

ProbePatterns == {<<>>, <<"a">>, <<"a", "b">>, IgnoreCasePrefix \o <<"A">>}

Texts(n) == UNION {[1..k -> ProbeChars] : k \in 0..n}

ProbeParams ==
    {Params("find", <<(<<nE>>)>>, re, FALSE, <<>>, FALSE, FALSE, FALSE, TRUE) :
        re \in ProbePatterns}

\* The line s as split by splitStringAtAllMatches and as scanned by the line
\* loop of searchFileContents, under the parameters q; before holds the
\* columns the scan gave before whitespace was added.
Probed(q, s, at, before) ==
    LET f  == Entry(Stat(<<nE>>), <<nE>>, 1)
        ev == scanLines(q, f, regexOf(q), <<s>>, 1).events
    IN  [pc      |-> at,
         s       |-> s,
         triples |-> splitStringAtAllMatches(s, regexOf(q)),
         columns |-> [k \in 1..Len(ev) |-> ev[k][4]],
         before  |-> before]

LineInit ==
    /\ fs = TreeBase
    /\ p \in ProbeParams
    /\ run = 1
    /\ pc = "probe"
    /\ result = "none"
    /\ queue = <<>>
    /\ matchCount = 0 /\ searchCount = 0 /\ discoverCount = 0 /\ skipCount = 0
    /\ start = [matched |-> 0, searched |-> 0, discovered |-> 0, skipped |-> 0]
    /\ delivered = <<>>
    /\ prev = [p |-> p, delivered |-> <<>>]
    /\ events = <<>>
    /\ outCount = 0
    /\ opened = <<>>
    /\ scanned = <<>>
    /\ statted = {}
    /\ sh = ShOff
    /\ rel = RelOff
    /\ chans = ChansOff
    /\ proc = ProcTest
    /\ files = FilesOff(FALSE)
    /\ probe \in {[pc |-> "new", s |-> s, triples |-> <<>>, columns |-> <<>>,
                    before |-> <<>>] : s \in Texts(MaxLen - 1)}

NotProbe ==
    <<fs, p, run, pc, result, queue, matchCount, searchCount, discoverCount,
      skipCount, start, delivered, prev, events, outCount, opened, scanned,
      statted, sh, rel, chans, proc, files>>

\* The line is split and scanned.
ProbeScan ==
    /\ probe.pc = "new"
    /\ probe' = Probed(p, probe.s, "scanned", <<>>)
    /\ UNCHANGED NotProbe

\* The same line with one more whitespace character at its end.
ProbeAppend ==
    /\ probe.pc \notin {"off", "new"} /\ Len(probe.s) < MaxLen
    /\ \E c \in {" ", "\t"} :
          probe' = Probed(p, Append(probe.s, c), "appended", probe.columns)
    /\ UNCHANGED NotProbe

\* The same line with one more whitespace character at its start.
ProbePrepend ==
    /\ probe.pc \notin {"off", "new"} /\ Len(probe.s) < MaxLen
    /\ \E c \in {" ", "\t"} :
          probe' = Probed(p, <<c>> \o probe.s, "prepended", probe.columns)
    /\ UNCHANGED NotProbe

LineNext == ProbeScan \/ ProbeAppend \/ ProbePrepend

LineSpec == LineInit /\ [][LineNext]_vars

----------------------------------------------------------------------------
(* Properties.                                                             *)

DeliveredPaths == {delivered[i].path : i \in 1..Len(delivered)}

Occurs(path) == Cardinality({i \in 1..Len(delivered) : delivered[i].path = path})

IsProperPrefix(a, b) == Len(a) < Len(b) /\ SubSeq(b, 1, Len(a)) = a

\* GoOnSearch: the consumer waits on a channel nobody will send on or close.
Blocked ==
    /\ p.rev = "GoOnSearch" /\ pc = "loop"
    /\ sh.pc = "returned" /\ rel.pc \in {"off", "recv"}

\* The invocation will pull no further entry.
RunOver == pc = "done" \/ Blocked

\* The paths of the entries a root contributes to a shallow discovery.
RootEntries(r) ==
    LET n == Walk(<<>>, r, TRUE) IN
    IF n = NoNode THEN {}
    ELSE IF fs[n].kind = "dir"
         THEN IF fs[n].ok
              THEN {Append(r, NameOrder[i]) : i \in {j \in 1..Len(NameOrder) :
                                                     Append(n, NameOrder[j]) \in DOMAIN fs}}
              ELSE {}
         ELSE {r}

RootFails(r) ==
    LET n == Walk(<<>>, r, TRUE) IN
    n = NoNode \/ (fs[n].kind = "dir" /\ ~fs[n].ok)

\* C1: in recursive mode the entries are delivered in breadth-first level
\* order: an entry found N levels below the roots is never delivered after
\* an entry found N+1 levels below them (the level of an entry is the number
\* of expansions that led from a root to it).
C1_LevelOrder ==
    p.recursive =>
        \A i \in 1..Len(delivered) : \A j \in 1..Len(delivered) :
            i < j => delivered[i].depth <= delivered[j].depth

C1_Witness ==
    /\ p.recursive /\ RunOver /\ Len(delivered) >= 4
    /\ delivered[1].isDir /\ delivered[2].depth = 1
    /\ delivered[Len(delivered)].depth = 2

\* C2: in recursive mode over one root directory (no tree here has a cycle)
\* every regular file and every directory below the root that lies under
\* readable directories only is delivered exactly once.
C2_ExactlyOnce ==
    (/\ RunOver /\ p.recursive /\ Len(p.paths) = 1
     /\ p.paths[1] \in DOMAIN fs /\ fs[p.paths[1]].kind = "dir")
    => \A n \in DOMAIN fs :
          (/\ IsProperPrefix(p.paths[1], n)
           /\ fs[n].kind \in {"file", "dir"}
           /\ \A k \in Len(p.paths[1])..(Len(n) - 1) :
                 fs[SubSeq(n, 1, k)].kind = "dir" /\ fs[SubSeq(n, 1, k)].ok)
          => Occurs(n) = 1

\* C3: in shallow mode with several roots of which one fails (Stat or
\* ReadDir), the entries of every other root are delivered.
C3_SiblingRootsSurvive ==
    (/\ RunOver /\ ~p.recursive /\ Len(p.paths) >= 2
     /\ \E i \in 1..Len(p.paths) : RootFails(p.paths[i]))
    => \A i \in 1..Len(p.paths) : RootEntries(p.paths[i]) \subseteq DeliveredPaths

\* C4: when find has returned, discovered >= searched >= matched, counted
\* from the start of the invocation.
C4_CounterChain ==
    (pc = "done" /\ p.rev = "find") =>
        /\ discoverCount - start.discovered >= searchCount - start.searched
        /\ searchCount - start.searched >= matchCount - start.matched

\* C5: when find has returned, searched has grown by one per entry that was
\* scanned (a name matched, or a file opened and its lines read).
C5_SearchedOncePerEntry ==
    (pc = "done" /\ p.rev = "find") =>
        searchCount - start.searched = Len(scanned)

\* C6: in every state of an invocation of find with a listener, matched has
\* grown by the number of listener calls made so far and discovered by the
\* number of entries pulled so far; neither counter ever decreases.
C6_CountersTrackEvents ==
    /\ []((p.rev = "find" /\ p.listener) =>
            /\ matchCount - start.matched = Len(events)
            /\ discoverCount - start.discovered = Len(delivered))
    /\ [][matchCount' >= matchCount /\ discoverCount' >= discoverCount]_vars

C6_Witness ==
    /\ p.rev = "find" /\ p.listener /\ run = 2 /\ pc = "loop"
    /\ start.matched > 0 /\ Len(events) >= 2 /\ Len(delivered) >= 2

\* C7: after an invocation of find the counters hold the events of that
\* invocation alone: discovered the entries pulled, matched the matches
\* written, searched and skipped no more than what one invocation can add.
C7_CountersPerInvocation ==
    (pc = "done" /\ p.rev = "find") =>
        /\ discoverCount = Len(delivered)
        /\ matchCount = outCount

\* The configurations validation rejects, stated on the parameters: the
\* lone backslash is the pattern that does not compile.
Invalid(q) ==
    \/ q.quiet /\ q.verbose
    \/ q.filterString # <<>> /\ q.fnamesOnly
    \/ q.regexString = <<"\\">>
    \/ q.filterString = <<"\\">>

\* C8: an invocation with quiet and verbose both set, with a filter in
\* filenames-only mode, or with a pattern that does not compile reports
\* failure and has done nothing: no Stat, no discovery goroutine or queue, no
\* entry, no listener call, no output, no file opened, no counter changed.
C8_AbortBeforeDiscovery ==
    (Invalid(p) /\ pc # "idle") =>
        /\ pc = "failed" /\ result = FALSE
        /\ statted = {} /\ queue = <<>>
        /\ sh.pc = "off" /\ rel.pc = "off" /\ chans.c = "none"
        /\ delivered = <<>> /\ events = <<>> /\ outCount = 0
        /\ opened = <<>> /\ scanned = <<>>
        /\ Counters = start

C8_Witness ==
    /\ pc = "failed" /\ run = 2 /\ discoverCount > 0 /\ matchCount > 0

\* C9: with a filter, a delivered entry whose name does not match it gives
\* no listener call, is not matched and is not opened; and an invocation
\* that differs from the previous one in the filter only pulls the same
\* entries in the same order (a directory is expanded whatever its name).
C9_FilterSkipsButTraverses ==
    /\ p.filterString # <<>> =>
          \A i \in 1..Len(delivered) :
              ~MatchString(filterOf(p), Base(delivered[i].path)) =>
                  /\ \A k \in 1..Len(events) : events[k][1] # delivered[i].path
                  /\ \A k \in 1..Len(opened) : opened[k] # delivered[i].path
                  /\ \A k \in 1..Len(scanned) : scanned[k] # delivered[i].path
    /\ (/\ pc = "done" /\ run >= 2
        /\ prev.p.filterString # p.filterString
        /\ prev.p.paths = p.paths /\ prev.p.recursive = p.recursive)
       => delivered = prev.delivered

C9_Witness ==
    /\ pc = "done" /\ run = 2 /\ p.recursive
    /\ p.filterString = <<"a">> /\ prev.p.filterString = <<>>
    /\ <<nD, nB, nA>> \in DeliveredPaths
    /\ <<nD, nA, nB>> \in DeliveredPaths
    /\ Len(opened) >= 2

\* C10 as claimed: a root that is a regular file that can be opened is
\* searched by a content search whatever the filter.
C10_RootsEscapeFilter ==
    (pc = "done" /\ ~p.fnamesOnly) =>
        \A i \in 1..Len(p.paths) :
            LET n == Walk(<<>>, p.paths[i], TRUE) IN
            (n # NoNode /\ fs[n].kind = "file" /\ fs[n].ok) =>
                \E k \in 1..Len(opened) : opened[k] = p.paths[i]

\* C10 as amended: the filter is applied to every entry, a file root
\* included: after a content search a root that is a regular file was
\* opened exactly if it can be opened and the filter is empty or matches its
\* base name; the children of a directory root are all delivered whatever
\* the name of the root.
C10_FilterAppliesToFileRoots ==
    (pc = "done" /\ ~p.fnamesOnly) =>
        \A i \in 1..Len(p.paths) :
            LET r == p.paths[i]
                n == Walk(<<>>, r, TRUE)
            IN  /\ (n # NoNode /\ fs[n].kind = "file") =>
                      ((\E k \in 1..Len(opened) : opened[k] = r)
                         <=> (/\ fs[n].ok
                              /\ \/ p.filterString = <<>>
                                 \/ MatchString(filterOf(p), Base(r))))
                /\ (n # NoNode /\ fs[n].kind = "dir") =>
                      RootEntries(r) \subseteq DeliveredPaths

C10_Witness ==
    /\ pc = "done" /\ ~p.fnamesOnly /\ p.filterString = <<"a">>
    /\ p.paths = <<(<<nD>>), <<nE>>>>
    /\ \A k \in 1..Len(opened) : opened[k] # <<nE>>
    /\ <<nD, nB>> \in DeliveredPaths
    /\ Len(opened) >= 1

\* The number of delivered entries whose search is over.
Processed == IF pc = "search" THEN Len(delivered) - 1 ELSE Len(delivered)

\* The texts a and b differ, and in letter case only.
CaseOnly(a, b) ==
    /\ a # b /\ Len(a) = Len(b)
    /\ \A k \in 1..Len(a) : Fold(a[k]) = Fold(b[k])

\* Line ln of lines is reached by a scan under q: no NUL stops it before.
Reached(q, lines, ln) ==
    q.noSkip \/ \A m \in 1..ln : \A k \in 1..Len(lines[m]) : lines[m][k] # NUL

\* C11: the ignore-case flag acts on the filter and on the pattern alike.  In
\* a content search, a readable regular file whose name differs from the
\* filter in letter case only is opened exactly if the flag is set; and a
\* line that is reached in an opened file and differs from the pattern in
\* letter case only gives a match event exactly if the flag is set.
C11_IgnoreCaseBoth ==
    ~p.fnamesOnly =>
        \A i \in 1..Processed :
            LET f == delivered[i]
                o == Open(f.path)
            IN  (~f.isDir /\ ~f.isSymlink /\ ~o.err) =>
                  /\ CaseOnly(f.name, p.filterString) =>
                        ((\E k \in 1..Len(opened) : opened[k] = f.path)
                            <=> p.ignoreCase)
                  /\ (\E k \in 1..Len(opened) : opened[k] = f.path) =>
                        \A ln \in 1..Len(o.lines) :
                            (/\ CaseOnly(TrimSpace(o.lines[ln]), p.regexString)
                             /\ Reached(p, o.lines, ln))
                            => ((\E k \in 1..Len(events) :
                                    events[k] = <<f.path, TrimSpace(o.lines[ln]), ln,
                                                  countLeadingSpace(o.lines[ln])>>)
                                 <=> p.ignoreCase)

C11_Witness ==
    /\ pc = "done" /\ p.ignoreCase /\ ~p.noSkip
    /\ p.filterString = <<"A">> /\ p.regexString = <<"A">>
    /\ opened = <<(<<nD, nA, nA>>)>>
    /\ events = <<(<<(<<nD, nA, nA>>), <<"a">>, 1, 0>>)>>

\* The pattern of q occurs somewhere in the text s.
OccursIn(q, s) ==
    LET re == Compile(q.regexString) IN
    \E i \in 0..(Len(s) - Len(re.lit)) :
        \A k \in 1..Len(re.lit) :
            IF re.ic THEN Fold(s[i + k]) = Fold(re.lit[k]) ELSE s[i + k] = re.lit[k]

\* C12: every triple splitStringAtAllMatches returns for the text s joins
\* back to s; the triples come from left to right, each match starting
\* after the start and not before the end of the match before it; and there
\* is no triple exactly when the pattern does not occur in s.
C12_TriplesSplitTheText ==
    probe.pc \notin {"off", "new"} =>
        LET s == probe.s
            t == probe.triples
        IN  /\ \A i \in 1..Len(t) : t[i].left \o t[i].middle \o t[i].right = s
            /\ \A i \in 1..(Len(t) - 1) :
                  /\ Len(t[i].left) < Len(t[i + 1].left)
                  /\ Len(t[i].left) + Len(t[i].middle) <= Len(t[i + 1].left)
            /\ (t = <<>>) <=> ~OccursIn(p, s)

C12_Witness ==
    /\ probe.pc = "appended" /\ Len(probe.triples) = 2
    /\ probe.triples[2].left # <<>>
    /\ probe.triples[2].middle # <<>>
    /\ probe.triples[2].right # <<>>

\* C13: the columns reported for a line do not change when a whitespace
\* character is added at the end of the line, and each grows by one when a
\* whitespace character is added at its start.
C13_ColumnShift ==
    /\ probe.pc = "appended" => probe.columns = probe.before
    /\ probe.pc = "prepended" =>
          /\ Len(probe.columns) = Len(probe.before)
          /\ \A k \in 1..Len(probe.columns) : probe.columns[k] = probe.before[k] + 1

\* How many times the path was opened.
TimesOpened(path) == Cardinality({k \in 1..Len(opened) : opened[k] = path})

\* The match events of the path that carry the line number ln.
EventsAt(path, ln) ==
    {k \in 1..Len(events) : events[k][1] = path /\ events[k][3] = ln}

\* C14: in a content search every match event carries the 1-based index of
\* the line of the file it was found on: the matched text stands on that
\* line at the reported column; and every line reached, blank or not, gives
\* one event per match, all with the number of that line, whatever the
\* number of matches on the lines before it.
C14_LineNumbers ==
    (~p.fnamesOnly /\ p.listener) =>
        /\ \A k \in 1..Len(events) :
              LET e == events[k]
                  o == Open(e[1])
              IN  /\ ~o.err
                  /\ e[3] >= 1 /\ e[3] <= Len(o.lines)
                  /\ e[4] >= 0 /\ e[4] + Len(e[2]) <= Len(o.lines[e[3]])
                  /\ SubSeq(o.lines[e[3]], e[4] + 1, e[4] + Len(e[2])) = e[2]
        /\ \A path \in SeqToSet(opened) :
              LET o == Open(path) IN
              \A ln \in 1..Len(o.lines) :
                  Cardinality(EventsAt(path, ln)) =
                      IF Reached(p, o.lines, ln)
                      THEN TimesOpened(path) *
                           Len(FindAllStringIndex(regexOf(p), TrimSpace(o.lines[ln])))
                      ELSE 0

C14_Witness ==
    /\ pc = "done" /\ ~p.fnamesOnly /\ p.listener /\ p.regexString = <<"a">>
    /\ \E i \in 1..Len(events) : \E j \in 1..Len(events) : \E k \in 1..Len(events) :
          /\ events[i] = <<(<<nD, nA, nA>>), <<"a">>, 1, 0>>
          /\ events[j] = <<(<<nD, nA, nA>>), <<"a">>, 1, 1>>
          /\ events[k] = <<(<<nD, nA, nB>>), <<"a">>, 3, 2>>

\* The lines of a file that hold a NUL.
NulLines(lines) ==
    {m \in 1..Len(lines) : \E k \in 1..Len(lines[m]) : lines[m][k] = NUL}

\* The number of match events the line ln of an opened path must have given
\* if it was scanned.
Due(path, ln) ==
    TimesOpened(path) *
        Len(FindAllStringIndex(regexOf(p), TrimSpace(Open(path).lines[ln])))

\* A regular file that can be opened and passes the filter.
Searchable(f) ==
    ~f.isDir /\ ~f.isSymlink /\ ~Open(f.path).err /\ ~filteredOut(p, f)

\* An entry that is skipped: by the filter, as a directory or a symlink, or
\* as a file that holds a NUL while skipping is on.
Skipped(f) ==
    \/ filteredOut(p, f)
    \/ f.isDir \/ f.isSymlink
    \/ ~p.noSkip /\ ~Open(f.path).err /\ NulLines(Open(f.path).lines) # {}

\* C15: in a content search with skipping on, a file with a NUL gives its
\* match events for the lines before the first line with a NUL and none for
\* that line or a later one; with skipping off every line of it, the lines
\* with a NUL included, gives its match events.  When find has returned,
\* skipped has grown by one for each skipped entry, a file with a NUL
\* counting once, and every searchable file that was delivered was opened.
C15_NulEndsTheScan ==
    (~p.fnamesOnly /\ p.listener) =>
        /\ \A path \in SeqToSet(opened) :
              LET lines == Open(path).lines IN
              NulLines(lines) # {} =>
                  \A ln \in 1..Len(lines) :
                      Cardinality(EventsAt(path, ln)) =
                          IF p.noSkip \/ \A m \in NulLines(lines) : ln < m
                          THEN Due(path, ln) ELSE 0
        /\ (pc = "done" /\ p.rev = "find") =>
              skipCount - start.skipped =
                  Cardinality({i \in 1..Len(delivered) : Skipped(delivered[i])})
        /\ pc = "done" =>
              \A i \in 1..Len(delivered) :
                  Searchable(delivered[i]) => TimesOpened(delivered[i].path) >= 1

C15_Witness ==
    /\ pc = "done" /\ p.rev = "find" /\ fs = TreeBinary /\ run = 2
    /\ ~p.fnamesOnly /\ p.listener /\ ~p.noSkip /\ p.regexString = <<"a">>
    /\ opened = <<(<<nD, nA, nA>>), <<nD, nA, nB>>, <<nD, nB, nA>>>>
    /\ \E k \in 1..Len(events) : events[k] = <<(<<nD, nA, nA>>), <<"a">>, 1, 0>>
    /\ \E k \in 1..Len(events) : events[k] = <<(<<nD, nA, nB>>), <<"a">>, 3, 2>>
    /\ skipCount - start.skipped = 3

\* The path is one of the roots the search was given.
IsRoot(path) == \E i \in 1..Len(p.paths) : p.paths[i] = path

\* C16: in a content search the path of an entry that is a directory or a
\* symlink is never opened and gives no match event, and no path that is
\* opened is a symlink: no file is scanned through a symlink.  (Stated for
\* the entries found below the roots; a root is resolved when it is named.)
C16_NoScanThroughSymlink ==
    ~p.fnamesOnly =>
        /\ \A i \in 1..Len(delivered) :
              (/\ delivered[i].isDir \/ delivered[i].isSymlink
               /\ ~IsRoot(delivered[i].path)) =>
                  /\ TimesOpened(delivered[i].path) = 0
                  /\ \A k \in 1..Len(events) : events[k][1] # delivered[i].path
        /\ \A k \in 1..Len(opened) :
              ~IsRoot(opened[k]) =>
                  LET n == Walk(<<>>, opened[k], FALSE) IN
                  n # NoNode /\ fs[n].kind # "link"

\* A regular file that passes the filter and cannot be opened.
Unopenable(f) ==
    ~f.isDir /\ ~f.isSymlink /\ Open(f.path).err /\ ~filteredOut(p, f)

\* C17: in a content search a file that cannot be opened gives no match
\* event and is not scanned, the run does not fail, and when the run is over
\* every searchable file delivered after it was opened; the step of find
\* that takes such a file changes neither matched nor searched.
C17_OpenFailureIsNotFatal ==
    /\ [](~p.fnamesOnly =>
            /\ \A i \in 1..Len(delivered) :
                  Unopenable(delivered[i]) =>
                      /\ \A k \in 1..Len(events) : events[k][1] # delivered[i].path
                      /\ \A k \in 1..Len(scanned) : scanned[k] # delivered[i].path
                      /\ pc # "failed"
            /\ pc = "done" =>
                  \A i \in 1..Len(delivered) : \A j \in 1..Len(delivered) :
                      (i < j /\ Unopenable(delivered[i]) /\ Searchable(delivered[j]))
                      => TimesOpened(delivered[j].path) >= 1)
    /\ [][(/\ p.rev = "find" /\ ~p.fnamesOnly /\ pc = "loop"
           /\ queue # <<>> /\ Unopenable(Head(queue)))
          => (/\ matchCount' = matchCount /\ searchCount' = searchCount
              /\ events' = events /\ pc' = "loop")]_vars

C17_Witness ==
    /\ pc = "done" /\ fs = TreeNoOpen /\ ~p.fnamesOnly
    /\ \E i \in 1..Len(delivered) : delivered[i].path = <<nD, nA, nA>>
    /\ opened = <<(<<nD, nA, nB>>), <<nD, nB, nA>>>>
    /\ \E k \in 1..Len(events) : events[k][1] = <<nD, nA, nB>>

\* The match events due for the entry f in a search by name: one per match
\* of the pattern in the base name of its path.
NameEvents(f) ==
    LET name == Base(f.path)
        m    == FindAllStringIndex(regexOf(p), name)
    IN  [k \in 1..Len(m) |-> <<f.path, SubSeq(name, m[k][1] + 1, m[k][2]), -1, -1>>]

RECURSIVE NameEventsOf(_, _)
NameEventsOf(entries, n) ==
    IF n = 0 THEN <<>> ELSE NameEventsOf(entries, n - 1) \o NameEvents(entries[n])

\* C18: in a search by name the match events are those of the base names of
\* the delivered entries, directories included, in the order of delivery,
\* with the full path of the entry and -1 for line and column; no file is
\* opened; and a root that is a directory and lies under no other root gives
\* no event of its own.
C18_NamesOnly ==
    (p.fnamesOnly /\ p.listener) =>
        /\ events = NameEventsOf(delivered, Processed)
        /\ opened = <<>>
        /\ \A i \in 1..Len(p.paths) :
              (/\ Stat(p.paths[i]).isDir
               /\ \A j \in 1..Len(p.paths) : ~IsProperPrefix(p.paths[j], p.paths[i]))
              => \A k \in 1..Len(events) : events[k][1] # p.paths[i]

C18_Witness ==
    /\ pc = "done" /\ p.fnamesOnly /\ p.listener /\ p.recursive
    /\ p.regexString = <<"a">> /\ p.paths = <<(<<nD>>)>> /\ fs = TreeBase
    /\ events = <<(<<(<<nD, nA>>), <<"a">>, -1, -1>>),
                   <<(<<nD, nA, nA>>), <<"a">>, -1, -1>>,
                   <<(<<nD, nB, nA>>), <<"a">>, -1, -1>>>>

\* The paths a shallow discovery owes for the root r, in order: the
\* children of a directory by name, the root itself when it is a file,
\* nothing when the root cannot be read.
OwedByRoot(r) ==
    LET n == Walk(<<>>, r, TRUE) IN
    IF n = NoNode THEN <<>>
    ELSE IF fs[n].kind = "dir"
         THEN IF fs[n].ok
              THEN LET names == SelectSeq(NameOrder, LAMBDA c : Append(n, c) \in DOMAIN fs)
                   IN  [i \in 1..Len(names) |-> Append(r, names[i])]
              ELSE <<>>
         ELSE <<r>>

RECURSIVE OwedByRoots(_)
OwedByRoots(roots) ==
    IF roots = <<>> THEN <<>> ELSE OwedByRoot(Head(roots)) \o OwedByRoots(Tail(roots))

\* C19: when a non-recursive search is over, the entries delivered are, root
\* by root, the N children of a root that is a directory, each under the
\* path of the root joined with its name, and the root itself when it is a
\* file; nothing deeper is delivered, and every match event is of one of
\* these paths.
C19_ShallowEntries ==
    (RunOver /\ pc # "search" /\ ~p.recursive) =>
        /\ [i \in 1..Len(delivered) |-> delivered[i].path] = OwedByRoots(p.paths)
        /\ \A k \in 1..Len(events) :
              \E i \in 1..Len(p.paths) :
                  \/ events[k][1] = p.paths[i]
                  \/ SubSeq(events[k][1], 1, Len(events[k][1]) - 1) = p.paths[i]

\* The listener calls the first n of the entries give, entry after entry.
RECURSIVE EventsOf(_, _)
EventsOf(entries, n) ==
    IF n = 0 THEN <<>>
    ELSE EventsOf(entries, n - 1) \o searchEntry(p, entries[n]).events

\* C20: the consumer handles the entries in the order they are delivered
\* and one at a time: in every state the listener calls made so far are
\* those of the entries whose search is over, entry after entry in the order
\* of delivery, with none yet of the entry being searched; and an entry is
\* taken only when the search of the one before it is over.
C20_StreamOrder ==
    /\ []((p.listener /\ pc \in {"loop", "search", "done"}) =>
            events = EventsOf(delivered, Processed))
    /\ [][Len(delivered') = Len(delivered) + 1 => pc = "loop"]_vars

C20_Witness ==
    /\ p.rev = "GoOnSearch" /\ p.recursive /\ p.listener
    /\ pc = "search" /\ rel.pc = "send"
    /\ Len(delivered) >= 4 /\ Len(events) >= 2
    /\ events[1][1] # events[Len(events)][1]
    /\ searchEntry(p, delivered[Len(delivered)]).events # <<>>

----------------------------------------------------------------------------
(* The discovery goroutines of "GoOnSearch".                               *)

\* A discoverFilesShallow goroutine is running: it has neither closed its
\* channel nor returned.
Producing == sh.pc \in {"next", "send"}

\* C21: in a recursive search one level is discovered at a time: while a
\* discoverFilesShallow runs, it is the one of the level the relay ranges
\* over, and every entry it holds, every entry the relay holds and every
\* entry delivered is of that level or of one above; and the goroutine of a
\* further level is started only when the one before it has closed its
\* channel.
C21_OneLevelAtATime ==
    /\ []((p.rev = "GoOnSearch" /\ p.recursive /\ Producing) =>
            /\ rel.pc \in {"recv", "send"}
            /\ sh.depth = rel.level - 1
            /\ \A i \in 1..Len(sh.pending) : sh.pending[i].depth = sh.depth
            /\ \A i \in 1..Len(rel.cur) : rel.cur[i].depth = sh.depth
            /\ \A i \in 1..Len(delivered) : delivered[i].depth <= sh.depth)
    /\ [][(rel'.level = rel.level + 1) =>
            /\ sh.pc \in {"off", "closed"}
            /\ sh.pc = "closed" => chans.s = "closed"]_vars

C21_Witness ==
    /\ p.rev = "GoOnSearch" /\ p.recursive
    /\ sh.pc = "send" /\ sh.depth = 2 /\ rel.level = 3
    /\ \E i \in 1..Len(delivered) : delivered[i].depth = 2

\* Entries a discovery goroutine holds at a send that no receiver has
\* completed: the one discoverFilesShallow is sending and those the relay
\* has taken and not yet passed on.
InFlight == (IF sh.pc = "send" THEN 1 ELSE 0) + Len(rel.cur)

\* The entry f is received in this step, by the relay or by the consumer.
Taken(f) ==
    \/ delivered' = Append(delivered, f)
    \/ rel'.cur = Append(rel.cur, f)

----------------------------------------------------------------------------
(* The interrupt handler and the exit of the process.                      *)

\* The consumer is in its loop: it may update a counter or write a match.
ConsumerRunning == pc \in {"loop", "search"}

\* C23: the counters and the output are touched by the consumer thread
\* alone: the interrupt handler does not read the counters or write to the
\* output while the consumer is in its loop.
C23_ConsumerAlone == proc.handler = "reporting" => ~ConsumerRunning

----------------------------------------------------------------------------
(* Expansion in a recursive search.                                        *)

\* The path leads, through symlinks, to a directory.
ResolvesToDir(path) == ~Stat(path).err /\ Stat(path).isDir

\* C24: when a recursive search has returned, an entry found below the
\* roots was expanded (its path was handed to Stat for its children) if and
\* only if it is a directory or a symlink that resolves to one.
C24_ExpandsDirectories ==
    (pc = "done" /\ p.recursive) =>
        \A i \in 1..Len(delivered) :
            ~IsRoot(delivered[i].path) =>
                (delivered[i].path \in statted <=> ResolvesToDir(delivered[i].path))

\* A root of the search leads into the cycle of TreeCycle.
IntoCycle == \E i \in 1..Len(p.paths) : p.paths[i] \in {<<nD>>, <<nD, nB>>}

\* C25: a recursive search of a tree in which a symlink points back to an
\* ancestor directory never returns.
C25_CycleNeverDone ==
    (fs = TreeCycle /\ p.recursive /\ IntoCycle) => pc # "done"

\* C26: the process exits with 0 after the search has returned success, and
\* with another code after a validation failure and after an interrupt.
C26_ExitCodes ==
    ~Alive =>
        IF proc.handler = "exited" THEN proc.exit # 0
        ELSE IF pc = "failed" THEN proc.exit # 0
        ELSE proc.exit = 0

\* Some step of the search or of its discovery goroutines can be taken:
\* the guards of FindLoop and FindReturn, of ShallowPath and ShallowClose,
\* of RelayTop, RelayRecv and RelayLevelEnd, and of GoOnLoop, GoOnBody and
\* GoOnReturn.
CanStep ==
    IF p.rev = "find"
    THEN pc = "loop" /\ (queue = <<>> \/ Head(queue).depth <= MaxDepth)
    ELSE \/ sh.pc = "next"
         \/ rel.pc = "top"
         \/ relayAtRange(rel) /\ sh.pc = "send" /\ sh.out = "s"
         \/ rel.pc = "recv" /\ levelOver(chans.s, sh)
         \/ /\ atRange(pc) /\ chans.c = "open"
            /\ rel.pc = "send" \/ (sh.pc = "send" /\ sh.out = "c")
         \/ pc = "search"
         \/ pc = "loop" /\ chans.c = "closed"

\* C27: over a tree without a symlink cycle a search that has started and
\* has not returned can take a further step, whether or not Stat or ReadDir
\* failed: the consumer is never left waiting on a channel nobody will send
\* on or close.
C27_NeverStuck ==
    (Alive /\ ConsumerRunning /\ fs # TreeCycle) => CanStep

----------------------------------------------------------------------------
(* The channels.                                                           *)

\* What a discoverFilesShallow over paths sends, in order.
RECURSIVE SentFor(_, _)
SentFor(paths, depth) ==
    IF paths = <<>> THEN <<>>
    ELSE shallowOfPath(Head(paths), depth).entries \o SentFor(Tail(paths), depth)

\* The entries of level k among those delivered, in order.
LevelOf(k) == SelectSeq(delivered, LAMBDA f : f.depth = k)

\* The paths of the directories among entries, in order.
DirPaths(entries) ==
    LET dirs == SelectSeq(entries, LAMBDA f : f.isDir)
    IN  [i \in 1..Len(dirs) |-> dirs[i].path]

\* C28: a goroutine is at a send only on an open channel; a channel is
\* closed by a step of the goroutine that sends on it (fileChan by the relay
\* in a recursive search and by discoverFilesShallow otherwise, a
\* shallowChan by the discoverFilesShallow of its level), and that step
\* finds the channel open; and when GoOnSearch has returned, the entries
\* received are, level by level and in order, the entries sent, each once.
C28_ChannelSafety ==
    /\ [](/\ sh.pc = "send" => chans[sh.out] = "open"
          /\ rel.pc = "send" => chans.c = "open"
          /\ (p.rev = "GoOnSearch" /\ pc = "done") =>
                IF p.recursive
                THEN \A k \in 1..(MaxDepth + 1) :
                        LevelOf(k) = SentFor(IF k = 1 THEN p.paths
                                             ELSE DirPaths(LevelOf(k - 1)), k)
                ELSE delivered = SentFor(p.paths, 1))
    /\ [][/\ (sh'.pc = "closed" /\ sh.pc # "closed") =>
                /\ chans[sh.out] = "open" /\ chans'[sh.out] = "closed"
                /\ sh.out = IF p.recursive THEN "s" ELSE "c"
          /\ (rel'.pc = "done" /\ rel.pc # "done") =>
                chans.c = "open" /\ chans'.c = "closed"
          /\ (chans'.c = "closed" /\ chans.c # "closed") =>
                IF p.recursive THEN rel'.pc = "done" /\ rel.pc = "top"
                ELSE sh'.pc = "closed" /\ sh.pc = "next"
          /\ (chans'.s = "closed" /\ chans.s # "closed") =>
                sh'.pc = "closed" /\ sh.pc = "next" /\ sh.out = "s"]_vars

C28_Witness ==
    /\ p.rev = "GoOnSearch" /\ p.recursive /\ pc = "done"
    /\ chans.c = "closed" /\ chans.s = "closed" /\ rel.level = 3
    /\ Len(LevelOf(1)) >= 2 /\ Len(LevelOf(2)) >= 2

----------------------------------------------------------------------------
(* Nested roots; the counters.                                             *)

\* No symlink in the tree.
NoLinks == \A n \in DOMAIN fs : fs[n].kind # "link"

\* C29: when a recursive search of a tree without symlinks has returned, no
\* path was delivered twice, also when one root lies inside another.
C29_NoEntryTwice ==
    (pc = "done" /\ p.recursive /\ NoLinks) =>
        \A i, j \in 1..Len(delivered) :
            i # j => delivered[i].path # delivered[j].path

\* The entry f is to be counted as skipped: the filter rejects it, or, in a
\* content search, it is a directory, a symlink or a file with a NUL.
SkipDue(f) == filteredOut(p, f) \/ (~p.fnamesOnly /\ Skipped(f))

\* C30: in find the skipped counter never exceeds the discovered counter,
\* over the process and over the invocation; a step of the loop adds one to
\* discovered, and to skipped it adds one when the entry is to be skipped,
\* whatever the number of reasons, and nothing otherwise; and in a content
\* search the step that takes a file that cannot be opened changes none of
\* skipped, searched and matched.
C30_SkippedAtMostOnce ==
    /\ [](p.rev = "find" =>
            /\ skipCount <= discoverCount
            /\ skipCount - start.skipped <= discoverCount - start.discovered)
    /\ [][(p.rev = "find" /\ Len(delivered') = Len(delivered) + 1) =>
            /\ discoverCount' = discoverCount + 1
            /\ skipCount' = skipCount + (IF SkipDue(Head(queue)) THEN 1 ELSE 0)
            /\ (~p.fnamesOnly /\ Unopenable(Head(queue))) =>
                  /\ skipCount' = skipCount /\ searchCount' = searchCount
                  /\ matchCount' = matchCount]_vars

C30_Witness ==
    /\ p.rev = "find" /\ pc = "done" /\ fs = TreeNoOpen /\ p.recursive
    /\ p.filterString # <<>>
    /\ skipCount - start.skipped >= 2
    /\ skipCount < discoverCount
    /\ \E i \in 1..Len(delivered) : Unopenable(delivered[i])

----------------------------------------------------------------------------
(* The file handles.                                                       *)

\* C31: in a content search at most one file is open at any time, and none
\* is open when the next entry is taken or when the search has returned.
C31_OneOpenFile ==
    ~p.fnamesOnly =>
        /\ files.most <= 1
        /\ pc \in {"loop", "done"} => files.open = <<>>

====
